---- MODULE Spec2Model ----
(***************************************************************************)
(* dropzone-kit: the file validation engine (validator / validateFile).    *)
(*                                                                         *)
(* A string is a sequence of one-character strings, so that startsWith and *)
(* endsWith are computed character by character.  An optional value is     *)
(* Undefined (the empty tuple) or Some(v) (a one-element tuple).           *)
(***************************************************************************)
EXTENDS Integers, Sequences, FiniteSets, TLC

\* one validator call: its parameters, the reduce accumulator and position,
\* and the log of the calls that have returned
VARIABLES files, messages, maxFiles, maxSize, minSize, acceptedFormats,
          rejections, cursor, pc, history

\* one validateFile call: its parameters and its result
VARIABLES vfCode, vfCondition, vfResult

\* the Dropzone component: props, React state, the input element's files,
\* the position in the render/effect cycle, the last validation pass and the
\* event being handled.
\* files, maxFiles, maxSize, minSize and acceptedFormats above are also the
\* component's state and props of the same names.
VARIABLES multiple, validationMessages, internalValidationMessages,
          internalRejections, isDragActive, inputFiles, phase, lastPass, event

\* the last drag-enter or drag-leave event the container has received
VARIABLE lastDrag

\* validator calls in progress side by side: for each its arguments, its
\* accumulator and its position (file, rule, results of the rules so far)
VARIABLE calls

params == <<files, messages, maxFiles, maxSize, minSize, acceptedFormats>>

vfVars == <<vfCode, vfCondition, vfResult>>

dzVars == <<multiple, validationMessages, internalValidationMessages,
            internalRejections, isDragActive, inputFiles, phase, lastPass, event,
            lastDrag>>

vars == <<params, rejections, cursor, pc, history, vfVars, dzVars, calls>>

(***************************************************************************)
(* Bounds of the model.                                                    *)
(***************************************************************************)
MaxBatch == 2
MaxSize == 2

(***************************************************************************)
(* Optional values and JavaScript truthiness.                              *)
(***************************************************************************)
Undefined == <<>>

Some(v) == <<v>>

Get(o) == o[1]

\* !n for an optional number: undefined and 0 are both falsy
NotNumber(o) == o = Undefined \/ Get(o) = 0

(***************************************************************************)
(* The four error codes (IFileErrorTypes), named as in the source.         *)
(***************************************************************************)
TooManyFiles == "too-many-files"

FileInvalidType == "file-invalid-type"

FileTooLarge == "file-too-large"

FileTooSmall == "file-too-small"

IFileErrorTypes == {FileInvalidType, FileTooLarge, FileTooSmall, TooManyFiles}

(***************************************************************************)
(* String.prototype.startsWith / endsWith on character sequences.          *)
(***************************************************************************)
startsWith(s, p) == Len(p) <= Len(s) /\ SubSeq(s, 1, Len(p)) = p

endsWith(s, p) == Len(p) <= Len(s) /\ SubSeq(s, Len(s) - Len(p) + 1, Len(s)) = p

(***************************************************************************)
(* validateFile: the catalog entry of validationCode when there is one and *)
(* the condition is false, null (Undefined) otherwise.                     *)
(***************************************************************************)
find(msgs, validationCode) ==
    IF msgs = Undefined THEN Undefined
    ELSE LET list == Get(msgs)
             hits == {i \in 1..Len(list) : list[i].code = validationCode}
         IN IF hits = {} THEN Undefined
            ELSE Some(list[CHOOSE i \in hits : \A j \in hits : i <= j])

\* variant: a code the catalog lacks falls back to a built-in entry
validateFile_fallback(validationCode, condition, msgs) ==
    LET validation == find(msgs, validationCode)
    IN IF condition THEN Undefined
       ELSE IF validation # Undefined THEN validation
       ELSE Some([code |-> validationCode, message |-> "default"])

\* variant: the entry is returned when the condition holds (validation && condition)
validateFile_inverted(validationCode, condition, msgs) ==
    LET validation == find(msgs, validationCode)
    IN IF validation # Undefined /\ condition THEN validation ELSE Undefined

validateFile(validationCode, condition, msgs) ==
    LET validation == find(msgs, validationCode)
    IN IF validation # Undefined /\ ~condition THEN validation ELSE Undefined

(***************************************************************************)
(* The four conditions handed to validateFile (true = satisfied).          *)
(***************************************************************************)
\* variant: files.length < maxFiles
tooManyFilesCondition_strict(fs, mf) == NotNumber(mf) \/ Len(fs) < Get(mf)

tooManyFilesCondition(fs, mf) == NotNumber(mf) \/ Len(fs) <= Get(mf)

\* variant: name and type are both tried for every pattern
formatMatches_eitherField(file, format) ==
    endsWith(file.name, format) \/ startsWith(file.type, format)

formatMatches(file, format) ==
    IF startsWith(format, <<".">>) THEN endsWith(file.name, format)
    ELSE startsWith(file.type, format)

\* variant: an empty acceptedFormats list is treated like an absent one
invalidTypeCondition_emptyIsAbsent(file, af) ==
    IF af # Undefined /\ Len(Get(af)) > 0
    THEN \E i \in 1..Len(Get(af)) : formatMatches(file, Get(af)[i])
    ELSE TRUE

invalidTypeCondition(file, af) ==
    IF af # Undefined
    THEN \E i \in 1..Len(Get(af)) : formatMatches(file, Get(af)[i])
    ELSE TRUE

tooLargeCondition(file, ms) == NotNumber(ms) \/ file.size <= Get(ms)

\* variant: file.size >= minSize without the !minSize guard
\* (a comparison with undefined is false)
tooSmallCondition_noGuard(file, ms) == ms # Undefined /\ file.size >= Get(ms)

\* variant: file.size > minSize
tooSmallCondition_strict(file, ms) == NotNumber(ms) \/ file.size > Get(ms)

tooSmallCondition(file, ms) == NotNumber(ms) \/ file.size >= Get(ms)

(***************************************************************************)
(* The body of the reduce callback: the four results in the fixed order,   *)
(* nulls filtered out.                                                     *)
(***************************************************************************)
filterNotNull(results) ==
    LET kept == SelectSeq(results, LAMBDA r : r # Undefined)
    IN [i \in 1..Len(kept) |-> Get(kept[i])]

\* variant: the type and size rules look at the first file of the batch
fileRejections_firstFile(file, fs, msgs, mf, mxs, mns, af) ==
    filterNotNull(<<
        validateFile(TooManyFiles, tooManyFilesCondition(fs, mf), msgs),
        validateFile(FileInvalidType, invalidTypeCondition(fs[1], af), msgs),
        validateFile(FileTooLarge, tooLargeCondition(fs[1], mxs), msgs),
        validateFile(FileTooSmall, tooSmallCondition(fs[1], mns), msgs) >>)

fileRejections(file, fs, msgs, mf, mxs, mns, af) ==
    filterNotNull(<<
        validateFile(TooManyFiles, tooManyFilesCondition(fs, mf), msgs),
        validateFile(FileInvalidType, invalidTypeCondition(file, af), msgs),
        validateFile(FileTooLarge, tooLargeCondition(file, mxs), msgs),
        validateFile(FileTooSmall, tooSmallCondition(file, mns), msgs) >>)

\* variant: one rejection record per error
push_perError(acc, file, errors) ==
    acc \o [i \in 1..Len(errors) |-> [file |-> file, error |-> <<errors[i]>>]]

\* variant: rejections.unshift instead of rejections.push
push_unshift(acc, file, errors) ==
    IF Len(errors) = 0 THEN acc
    ELSE <<[file |-> file, error |-> errors]>> \o acc

push(acc, file, errors) ==
    IF Len(errors) = 0 THEN acc
    ELSE Append(acc, [file |-> file, error |-> errors])

(***************************************************************************)
(* Input domains.                                                          *)
(***************************************************************************)
Names == { <<>>, <<"a", ".", "t">>, <<"a", ".", "T">> }

Types == { <<>>, <<"a", "/", "p">>, <<"A", "/", "p">>, <<".", "t">> }

Formats == { <<".", "t">>, <<"a">> }

Sizes == 0..MaxSize

\* a File object: id is its identity, the rest its attributes
AnyFile == [id : {1}, name : Names, size : Sizes, type : Types]

\* distinct File objects batches of two and more are drawn from;
\* objects 1 and 2 have the same name
PoolFile(n) ==
    CASE n = 1 -> [id |-> 1, name |-> <<"a", ".", "t">>, size |-> MaxSize, type |-> <<"a", "/", "p">>]
      [] n = 2 -> [id |-> 2, name |-> <<"a", ".", "t">>, size |-> 0, type |-> <<"A", "/", "p">>]
      [] n = 3 -> [id |-> 3, name |-> <<>>, size |-> 1, type |-> <<>>]

Pool == {PoolFile(n) : n \in 1..3}

SeqsUpTo(S, lo, hi) == UNION {[1..n -> S] : n \in lo..hi}

Batches == SeqsUpTo(AnyFile, 0, 1) \cup SeqsUpTo(Pool, 2, MaxBatch)

\* the built-in catalog of the Dropzone, in its order
BaseCatalog ==
    << [code |-> FileInvalidType, message |-> "invalid"],
       [code |-> FileTooLarge, message |-> "large"],
       [code |-> FileTooSmall, message |-> "small"],
       [code |-> TooManyFiles, message |-> "many"] >>

Without(c) == SelectSeq(BaseCatalog, LAMBDA m : m.code # c)

\* a caller-supplied entry listed ahead of the built-in one for the same code
CustomFirst == <<[code |-> FileTooLarge, message |-> "custom"]>> \o BaseCatalog

\* no catalog, the empty one, the full one, the full one less one code,
\* and one that lists a code twice
Catalogs ==
    {Undefined, Some(<<>>), Some(BaseCatalog), Some(CustomFirst)} \cup
    {Some(Without(c)) : c \in IFileErrorTypes}

OptNat(lo, hi) == {Undefined} \cup {Some(n) : n \in lo..hi}

\* absent, or any list of patterns that names no pattern twice
FormatLists ==
    {Undefined} \cup
    {Some(l) : l \in {m \in SeqsUpTo(Formats, 0, Cardinality(Formats)) :
                         \A i, j \in 1..Len(m) : i # j => m[i] # m[j]}}

(***************************************************************************)
(* Parts of the state a specification does not use stay at these values.   *)
(***************************************************************************)
NoValidateFileCall ==
    /\ vfCode = Undefined
    /\ vfCondition = Undefined
    /\ vfResult = Undefined

\* no event being handled; otherwise, until the validation effect it leads to
\* has run, the handler's argument and the held files it started from
NoEvent == [type |-> "none", files |-> <<>>, held |-> <<>>]

NoConcurrentCalls == calls = <<>>

NoDropzone ==
    /\ multiple = Undefined
    /\ validationMessages = Undefined
    /\ internalValidationMessages = Undefined
    /\ internalRejections = <<>>
    /\ isDragActive = FALSE
    /\ inputFiles = <<>>
    /\ phase = "unmounted"
    /\ lastPass = Undefined
    /\ event = NoEvent
    /\ lastDrag = "none"

(***************************************************************************)
(* The state machine: one validator call, one reduce iteration per step.   *)
(***************************************************************************)
Init ==
    /\ files \in Batches
    /\ messages \in Catalogs
    /\ maxFiles \in OptNat(1, MaxBatch)
    /\ maxSize \in OptNat(0, MaxSize)
    /\ minSize \in OptNat(0, MaxSize + 1)
    /\ acceptedFormats \in FormatLists
    /\ rejections = <<>>
    /\ cursor = 1
    /\ pc = "reduce"
    /\ history = <<>>
    /\ NoValidateFileCall
    /\ NoDropzone
    /\ NoConcurrentCalls

\* variant: messages.find without the optional chaining, acceptedFormats.some
\* without the ternary in front of it
receivers_unguarded(msgs, af) == {msgs, af}

\* the objects a method is called on in one iteration: messages?.find is
\* skipped when there is no catalog, acceptedFormats.some is evaluated only
\* when the ternary has found a list
receivers(msgs, af) ==
    (IF msgs # Undefined THEN {msgs} ELSE {})
        \cup (IF af # Undefined THEN {af} ELSE {})

\* a method called on undefined throws
TypeError(msgs, af) == Undefined \in receivers(msgs, af)

\* variant: the iteration takes its file off the caller's array (files.shift)
afterIteration_shift(p) == <<Tail(p[1]), p[2], p[3], p[4], p[5], p[6]>>

\* the caller's objects after one iteration: find, some, startsWith, endsWith
\* and length only read them, push writes to the accumulator
afterIteration(p) == p

ReduceStep ==
    /\ pc = "reduce"
    /\ cursor <= Len(files)
    /\ IF TypeError(messages, acceptedFormats)
       THEN /\ pc' = "thrown"
            /\ UNCHANGED <<rejections, cursor>>
       ELSE /\ rejections' = push(rejections, files[cursor],
                                  fileRejections(files[cursor], files, messages,
                                                 maxFiles, maxSize, minSize,
                                                 acceptedFormats))
            /\ cursor' = cursor + 1
            /\ pc' = pc
    /\ files' = afterIteration(params)[1]
    /\ messages' = afterIteration(params)[2]
    /\ maxFiles' = afterIteration(params)[3]
    /\ maxSize' = afterIteration(params)[4]
    /\ minSize' = afterIteration(params)[5]
    /\ acceptedFormats' = afterIteration(params)[6]
    /\ UNCHANGED <<history, vfVars, dzVars, calls>>

Return ==
    /\ pc = "reduce"
    /\ cursor > Len(files)
    /\ pc' = "returned"
    /\ history' = Append(history, [args |-> params, result |-> rejections])
    /\ UNCHANGED <<params, rejections, cursor, vfVars, dzVars, calls>>

Next == ReduceStep \/ Return

Spec == Init /\ [][Next]_vars

Returned == pc = "returned"

TypeOK ==
    /\ pc \in {"reduce", "returned", "thrown"}
    /\ cursor \in 1..(Len(files) + 1)
    /\ Len(rejections) <= Len(files)

(***************************************************************************)
(* The state machine of a single validateFile call.                        *)
(***************************************************************************)
NoValidatorCall ==
    /\ rejections = <<>>
    /\ cursor = 1
    /\ history = <<>>

\* catalogs of one entry, besides those of Catalogs
OneEntryCatalogs == {Some(<<BaseCatalog[i]>>) : i \in 1..Len(BaseCatalog)}

InitValidateFile ==
    /\ vfCode \in IFileErrorTypes
    /\ vfCondition \in BOOLEAN
    /\ messages \in Catalogs \cup OneEntryCatalogs
    /\ vfResult = Undefined
    /\ pc = "validateFile"
    /\ files = <<>>
    /\ maxFiles = Undefined /\ maxSize = Undefined
    /\ minSize = Undefined /\ acceptedFormats = Undefined
    /\ NoValidatorCall
    /\ NoDropzone
    /\ NoConcurrentCalls

CallValidateFile ==
    /\ pc = "validateFile"
    /\ vfResult' = validateFile(vfCode, vfCondition, messages)
    /\ pc' = "returned"
    /\ UNCHANGED <<params, rejections, cursor, history, vfCode, vfCondition, dzVars, calls>>

NextValidateFile == CallValidateFile

SpecValidateFile == InitValidateFile /\ [][NextValidateFile]_vars

(***************************************************************************)
(* validator as a function: the reduce over the whole batch.               *)
(***************************************************************************)
RECURSIVE reduceFrom(_, _, _, _, _, _, _, _)
reduceFrom(acc, k, fs, msgs, mf, mxs, mns, af) ==
    IF k > Len(fs) THEN acc
    ELSE reduceFrom(push(acc, fs[k], fileRejections(fs[k], fs, msgs, mf, mxs, mns, af)),
                    k + 1, fs, msgs, mf, mxs, mns, af)

validator(fs, msgs, mf, mxs, mns, af) == reduceFrom(<<>>, 1, fs, msgs, mf, mxs, mns, af)

(***************************************************************************)
(* The Dropzone component.                                                 *)
(***************************************************************************)
\* new Set(list.map(file => file.name)).has(name)
hasName(list, name) == \E i \in 1..Len(list) : list[i].name = name

\* list.filter(file => !names.has(file.name))
withoutNames(list, named) == SelectSeq(list, LAMBDA f : ~hasName(named, f.name))

\* the built-in messages; their interpolated texts are kept as fixed strings
defaultValidationMessages == BaseCatalog

\* the validation-messages effect: per built-in entry, the caller's first
\* entry of that code or else the built-in one
\* variant: the caller's entries are put in front of all the built-in ones
formattedValidationMessages_concat(custom, defaults) ==
    IF custom # Undefined THEN Get(custom) \o defaults ELSE defaults

formattedValidationMessages(custom, defaults) ==
    IF custom # Undefined
    THEN [i \in 1..Len(defaults) |->
            IF find(custom, defaults[i].code) # Undefined
            THEN Get(find(custom, defaults[i].code))
            ELSE defaults[i]]
    ELSE defaults

\* handleDrop: held is the files of the handler's closure, prev the state the
\* queued update is applied to
uniquedFiles(held, newFiles) == withoutNames(newFiles, held)

\* variant: the new files take the place of the held ones in both modes
handleDrop_replace(prev, held, newFiles, mult) ==
    IF Len(newFiles) = 0 THEN prev ELSE uniquedFiles(held, newFiles)

handleDrop(prev, held, newFiles, mult) ==
    IF Len(newFiles) = 0 THEN prev
    ELSE IF mult THEN prev \o uniquedFiles(held, newFiles)
    ELSE uniquedFiles(held, newFiles)

\* handleFileDelete(deletedFiles): the state update, then the change event it
\* dispatches on the input, which re-enters handleDrop with the remaining files
remainingFiles(held, deletedFiles) == withoutNames(held, deletedFiles)

handleFileDelete(held, deletedFiles, mult) ==
    handleDrop(withoutNames(held, deletedFiles), held,
               remainingFiles(held, deletedFiles), mult)

\* the validation effect
rejectedFiles(rejs) == [i \in 1..Len(rejs) |-> rejs[i].file]

validFiles(held, rejs) == withoutNames(held, rejectedFiles(rejs))

\* the files of the input element after the effect
mirroredFiles(held, rejs, input) ==
    LET afterDelete == IF Len(rejs) > 0
                       THEN remainingFiles(held, rejectedFiles(rejs))
                       ELSE input
        valid == validFiles(held, rejs)
        prevAddedFiles == withoutNames(valid, afterDelete)
    IN IF Len(valid) > 0 /\ Len(valid) # Len(afterDelete) /\ Len(prevAddedFiles) > 0
       THEN prevAddedFiles \o afterDelete
       ELSE afterDelete

\* onDropAccepted?.(validFiles): the argument of the call
onDropAccepted(valid) == Some(valid)

\* what the caller may pass as validationMessages
CustomMessages ==
    { Undefined,
      Some(<<[code |-> FileTooLarge, message |-> "custom"]>>),
      Some(<<[code |-> TooManyFiles, message |-> "custom"],
             [code |-> TooManyFiles, message |-> "custom2"],
             [code |-> FileTooLarge, message |-> "custom"]>>) }

\* the files of one drop or selection: distinct File objects, possibly two
\* of the same name
DropBatches ==
    {b \in SeqsUpTo(Pool, 0, MaxBatch) : \A i, j \in 1..Len(b) : i # j => b[i] # b[j]}

InitDropzone ==
    /\ multiple \in BOOLEAN
    /\ validationMessages \in CustomMessages
    /\ maxFiles \in OptNat(1, 1)
    /\ maxSize \in OptNat(1, 1)
    /\ minSize = Undefined
    /\ acceptedFormats = Undefined
    /\ files = <<>>
    /\ internalValidationMessages = validationMessages
    /\ internalRejections = <<>>
    /\ isDragActive = FALSE
    /\ inputFiles = <<>>
    /\ phase = "mount"
    /\ lastPass = Undefined
    /\ event = NoEvent
    /\ lastDrag = "none"
    /\ messages = Undefined
    /\ pc = "dropzone"
    /\ NoValidatorCall
    /\ NoValidateFileCall
    /\ NoConcurrentCalls

dzProps == <<multiple, validationMessages, maxFiles, maxSize, minSize, acceptedFormats>>

dzFrame == <<messages, rejections, cursor, pc, history, vfVars, dzProps, calls, lastDrag>>

\* the validation-messages effect of the mount pass
MessagesEffect ==
    /\ phase = "mount"
    /\ internalValidationMessages' =
          Some(formattedValidationMessages(validationMessages, defaultValidationMessages))
    /\ phase' = "mountValidate"
    /\ UNCHANGED <<files, internalRejections, isDragActive, inputFiles, lastPass,
                   event, dzFrame>>

\* one run of the validation effect with the catalog of its render
runValidation(msgs, pass) ==
    LET rejs == validator(files, msgs, maxFiles, maxSize, minSize, acceptedFormats)
        valid == validFiles(files, rejs)
    IN /\ internalRejections' = IF Len(rejs) > 0 THEN rejs ELSE internalRejections
       /\ inputFiles' = mirroredFiles(files, rejs, inputFiles)
       /\ lastPass' = Some([pass |-> pass, files |-> files, messages |-> msgs,
                            onDrop |-> <<valid, rejs>>,
                            onDropRejected |-> Some(rejs),
                            onDropAccepted |-> onDropAccepted(valid)])
       /\ UNCHANGED <<files, internalValidationMessages, isDragActive, dzFrame>>

\* the validation effect of the mount pass: its render still holds the
\* initial state of internalValidationMessages, the validationMessages prop
MountValidationEffect ==
    /\ phase = "mountValidate"
    /\ runValidation(validationMessages, "mount")
    /\ phase' = "effects"
    /\ UNCHANGED event

\* the validation effect after a render in which files or
\* internalValidationMessages changed
ValidationEffect ==
    /\ phase = "effects"
    /\ runValidation(internalValidationMessages, "update")
    /\ phase' = "idle"
    /\ event' = NoEvent

\* a drop on the container: event.dataTransfer.files
DropEvent ==
    /\ phase = "idle"
    /\ \E newFiles \in DropBatches :
          /\ files' = handleDrop(files, files, newFiles, multiple)
          /\ phase' = IF Len(newFiles) = 0 THEN phase ELSE "effects"
          /\ event' = IF Len(newFiles) = 0 THEN event
                      ELSE [type |-> "drop", files |-> newFiles, held |-> files]
    /\ UNCHANGED <<internalValidationMessages, internalRejections, isDragActive,
                   inputFiles, lastPass, dzFrame>>

\* the selections the file picker can make: the input element carries the
\* multiple attribute, so without it a selection has one file at most
Selections == {b \in DropBatches : multiple \/ Len(b) <= 1}

\* a change of the input: the browser has put the selection in input.files
ChangeEvent ==
    /\ phase = "idle"
    /\ \E newFiles \in Selections :
          /\ inputFiles' = newFiles
          /\ files' = handleDrop(files, files, newFiles, multiple)
          /\ phase' = IF Len(newFiles) = 0 THEN phase ELSE "effects"
          /\ event' = IF Len(newFiles) = 0 THEN event
                      ELSE [type |-> "change", files |-> newFiles, held |-> files]
    /\ UNCHANGED <<internalValidationMessages, internalRejections, isDragActive,
                   lastPass, dzFrame>>

\* handleFileDelete(deletedFiles) called by the children
FileDelete ==
    /\ phase = "idle"
    /\ \E deletedFiles \in DropBatches \ {<<>>} :
          /\ files' = handleFileDelete(files, deletedFiles, multiple)
          /\ inputFiles' = remainingFiles(files, deletedFiles)
          /\ event' = [type |-> "delete", files |-> deletedFiles, held |-> files]
    /\ phase' = "effects"
    /\ UNCHANGED <<internalValidationMessages, internalRejections, isDragActive,
                   lastPass, dzFrame>>

NextDropzone ==
    \/ MessagesEffect
    \/ MountValidationEffect
    \/ ValidationEffect
    \/ DropEvent
    \/ ChangeEvent
    \/ FileDelete

SpecDropzone == InitDropzone /\ [][NextDropzone]_vars

(***************************************************************************)
(* The Dropzone with the drag events of its container.                     *)
(***************************************************************************)
\* variant: the indicator is set by every drag event
handleDrag_sticky(type) == TRUE

\* the value handleDrag gives to setIsDragActive
handleDrag(type) == type = "enter"

InitDrag ==
    /\ InitDropzone
    /\ validationMessages = Undefined
    /\ maxFiles = Undefined
    /\ maxSize = Undefined

dragFrame == <<files, internalValidationMessages, internalRejections, inputFiles,
               phase, lastPass, event, messages, rejections, cursor, pc, history,
               vfVars, dzProps, calls>>

\* onDragEnter and onDragLeave of the container
DragEnter ==
    /\ phase = "idle"
    /\ isDragActive' = handleDrag("enter")
    /\ lastDrag' = "enter"
    /\ UNCHANGED dragFrame

DragLeave ==
    /\ phase = "idle"
    /\ isDragActive' = handleDrag("leave")
    /\ lastDrag' = "leave"
    /\ UNCHANGED dragFrame

\* onDragOver: handleDragOver only prevents the default action
DragOver ==
    /\ phase = "idle"
    /\ UNCHANGED <<isDragActive, lastDrag, dragFrame>>

NextDrag == NextDropzone \/ DragEnter \/ DragLeave \/ DragOver

SpecDrag == InitDrag /\ [][NextDrag]_vars

(***************************************************************************)
(* The state machine of repeated validator calls: when a call has returned *)
(* the caller makes the next one, with arguments of its choice.            *)
(***************************************************************************)
MaxCalls == 3

\* variant: the accumulator is an array that outlives the call
freshRejections_leftover(leftover) == leftover

\* the initial value of the reduce: an array literal, evaluated at every call
freshRejections(leftover) == <<>>

RepeatBatches ==
    {<<>>, <<PoolFile(1)>>, <<PoolFile(1), PoolFile(3)>>, <<PoolFile(3), PoolFile(1)>>}

InitRepeat ==
    /\ files \in RepeatBatches
    /\ messages = Some(BaseCatalog)
    /\ maxFiles \in OptNat(1, 1)
    /\ maxSize \in OptNat(1, 1)
    /\ minSize = Undefined
    /\ acceptedFormats = Undefined
    /\ rejections = <<>>
    /\ cursor = 1
    /\ pc = "reduce"
    /\ history = <<>>
    /\ NoValidateFileCall
    /\ NoDropzone
    /\ NoConcurrentCalls

Call ==
    /\ pc = "returned"
    /\ Len(history) < MaxCalls
    /\ files' \in RepeatBatches
    /\ maxFiles' \in OptNat(1, 1)
    /\ maxSize' \in OptNat(1, 1)
    /\ rejections' = freshRejections(rejections)
    /\ cursor' = 1
    /\ pc' = "reduce"
    /\ UNCHANGED <<messages, minSize, acceptedFormats, history, vfVars, dzVars, calls>>

NextRepeat == ReduceStep \/ Return \/ Call

SpecRepeat == InitRepeat /\ [][NextRepeat]_vars

(***************************************************************************)
(* The state machine of a validator call followed by a second call on      *)
(* another batch of as many files, with the same constraints and catalog.  *)
(***************************************************************************)
PoolBatches == SeqsUpTo(Pool, 0, MaxBatch)

InitRevalidate ==
    /\ files \in PoolBatches
    /\ messages \in {Some(BaseCatalog), Some(Without(FileTooSmall))}
    /\ maxFiles \in OptNat(1, 1)
    /\ maxSize \in OptNat(1, 1)
    /\ minSize \in OptNat(1, 1)
    /\ acceptedFormats \in {Undefined, Some(<<<<".", "t">>>>)}
    /\ rejections = <<>>
    /\ cursor = 1
    /\ pc = "reduce"
    /\ history = <<>>
    /\ NoValidateFileCall
    /\ NoDropzone
    /\ NoConcurrentCalls

Revalidate ==
    /\ pc = "returned"
    /\ Len(history) = 1
    /\ files' \in {b \in PoolBatches : Len(b) = Len(files)}
    /\ rejections' = freshRejections(rejections)
    /\ cursor' = 1
    /\ pc' = "reduce"
    /\ UNCHANGED <<messages, maxFiles, maxSize, minSize, acceptedFormats, history,
                   vfVars, dzVars, calls>>

NextRevalidate == ReduceStep \/ Return \/ Revalidate

SpecRevalidate == InitRevalidate /\ [][NextRevalidate]_vars

(***************************************************************************)
(* The state machine of two validator calls that run side by side, one     *)
(* rule or one push at a time, each on arguments of its own.               *)
(***************************************************************************)
\* the four validateFile calls of one iteration, in the order of the array
ruleResults(file, fs, msgs, mf, mxs, mns, af) ==
    << validateFile(TooManyFiles, tooManyFilesCondition(fs, mf), msgs),
       validateFile(FileInvalidType, invalidTypeCondition(file, af), msgs),
       validateFile(FileTooLarge, tooLargeCondition(file, mxs), msgs),
       validateFile(FileTooSmall, tooSmallCondition(file, mns), msgs) >>

Rules == 4

ConcurrentArgs ==
    {<<b, Some(BaseCatalog), mf, mxs, Undefined, Undefined>> :
        b \in RepeatBatches, mf \in OptNat(1, 1), mxs \in OptNat(1, 1)}

called(args) ==
    [args |-> args, rejections |-> <<>>, cursor |-> 1, rule |-> 1,
     results |-> <<>>, pc |-> "called", overlapped |-> FALSE]

other(i) == 3 - i

\* a step of call i taken while the other call is in its reduce
overlap(i) == calls[i].overlapped \/ calls[other(i)].pc = "reduce"

InitConcurrent ==
    /\ \E a1, a2 \in ConcurrentArgs :
          /\ a1 # a2
          /\ calls = <<called(a1), called(a2)>>
    /\ files = <<>>
    /\ messages = Undefined
    /\ maxFiles = Undefined
    /\ maxSize = Undefined
    /\ minSize = Undefined
    /\ acceptedFormats = Undefined
    /\ pc = "concurrent"
    /\ NoValidatorCall
    /\ NoValidateFileCall
    /\ NoDropzone

ccFrame == <<params, rejections, cursor, pc, history, vfVars, dzVars>>

\* the call starts its reduce on a new accumulator
EnterCall ==
    /\ \E i \in 1..2 :
          /\ calls[i].pc = "called"
          /\ calls' = [calls EXCEPT
                ![i].rejections = freshRejections(calls[other(i)].rejections),
                ![i].pc = "reduce"]
    /\ UNCHANGED ccFrame

\* one validateFile call of the current iteration
RuleStep ==
    /\ \E i \in 1..2 :
          LET c == calls[i]
              a == c.args
          IN /\ c.pc = "reduce"
             /\ c.cursor <= Len(a[1])
             /\ c.rule <= Rules
             /\ calls' = [calls EXCEPT
                   ![i].results = Append(c.results,
                        ruleResults(a[1][c.cursor], a[1], a[2], a[3], a[4], a[5], a[6])[c.rule]),
                   ![i].rule = c.rule + 1,
                   ![i].overlapped = overlap(i)]
    /\ UNCHANGED ccFrame

\* the filter and the push that end the iteration
PushStep ==
    /\ \E i \in 1..2 :
          LET c == calls[i]
              a == c.args
          IN /\ c.pc = "reduce"
             /\ c.cursor <= Len(a[1])
             /\ c.rule > Rules
             /\ calls' = [calls EXCEPT
                   ![i].rejections = push(c.rejections, a[1][c.cursor],
                                          filterNotNull(c.results)),
                   ![i].cursor = c.cursor + 1,
                   ![i].rule = 1,
                   ![i].results = <<>>,
                   ![i].overlapped = overlap(i)]
    /\ UNCHANGED ccFrame

ReturnCall ==
    /\ \E i \in 1..2 :
          /\ calls[i].pc = "reduce"
          /\ calls[i].cursor > Len(calls[i].args[1])
          /\ calls' = [calls EXCEPT ![i].pc = "returned"]
    /\ UNCHANGED ccFrame

NextConcurrent == EnterCall \/ RuleStep \/ PushStep \/ ReturnCall

SpecConcurrent == InitConcurrent /\ [][NextConcurrent]_vars

(***************************************************************************)
(* Vocabulary of the properties, stated on the inputs and the returned     *)
(* rejection list without reference to the operators above.                *)
(***************************************************************************)
InBatch == {files[i] : i \in 1..Len(files)}

Occurrences(f) == {i \in 1..Len(files) : files[i] = f}

RecordsOf(f) == {i \in 1..Len(rejections) : rejections[i].file = f}

RecordHas(i, c) == \E j \in 1..Len(rejections[i].error) : rejections[i].error[j].code = c

RejectedFor(f, c) == \E i \in RecordsOf(f) : RecordHas(i, c)

NoRecordHas(c) == \A i \in 1..Len(rejections) : ~RecordHas(i, c)

CatalogHas(c) ==
    /\ messages # Undefined
    /\ \E i \in 1..Len(messages[1]) : messages[1][i].code = c

IsPrefix(p, s) == Len(p) <= Len(s) /\ \A k \in 1..Len(p) : s[k] = p[k]

IsSuffix(p, s) == Len(p) <= Len(s) /\ \A k \in 1..Len(p) : s[Len(s) - Len(p) + k] = p[k]

PatternMatches(p, f) ==
    IF Len(p) >= 1 /\ p[1] = "." THEN IsSuffix(p, f.name) ELSE IsPrefix(p, f.type)

SomePatternMatches(f) ==
    \E i \in 1..Len(acceptedFormats[1]) : PatternMatches(acceptedFormats[1][i], f)

\* the rules of section 4.2: a present constraint that the file (or batch) fails
Violates(f, c) ==
    CASE c = TooManyFiles -> maxFiles # Undefined /\ Len(files) > maxFiles[1]
      [] c = FileInvalidType -> acceptedFormats # Undefined /\ ~SomePatternMatches(f)
      [] c = FileTooLarge -> maxSize # Undefined /\ f.size > maxSize[1]
      [] c = FileTooSmall -> minSize # Undefined /\ f.size < minSize[1]

RuleOrder == <<TooManyFiles, FileInvalidType, FileTooLarge, FileTooSmall>>

ExpectedCodes(f) == SelectSeq(RuleOrder, LAMBDA c : CatalogHas(c) /\ Violates(f, c))

FirstRecordOf(f) == CHOOSE i \in RecordsOf(f) : \A j \in RecordsOf(f) : i <= j

ReportedCodes(f) ==
    IF RecordsOf(f) = {} THEN <<>>
    ELSE [j \in 1..Len(rejections[FirstRecordOf(f)].error) |->
             rejections[FirstRecordOf(f)].error[j].code]

RECURSIVE IsSubsequence(_, _)
IsSubsequence(a, b) ==
    IF a = <<>> THEN TRUE
    ELSE IF b = <<>> THEN FALSE
    ELSE IF Head(a) = Head(b) THEN IsSubsequence(Tail(a), Tail(b))
    ELSE IsSubsequence(a, Tail(b))

RejectedFiles == [i \in 1..Len(rejections) |-> rejections[i].file]

(***************************************************************************)
(* C1 - Unconfigured rule is inert: a code the catalog has no entry for    *)
(* (or any code, when the catalog is absent) never appears in a rejection  *)
(* record, and with an absent or empty catalog nothing is rejected.        *)
(***************************************************************************)
C1_UnconfiguredRuleInert ==
    /\ \A c \in IFileErrorTypes : ~CatalogHas(c) => NoRecordHas(c)
    /\ (messages = Undefined \/ messages = Some(<<>>)) => rejections = <<>>

C1_Witness ==
    /\ Returned
    /\ messages # Undefined /\ messages # Some(<<>>)
    /\ ~CatalogHas(FileTooLarge)
    /\ \E f \in InBatch : Violates(f, FileTooLarge) /\ RecordsOf(f) # {}

(***************************************************************************)
(* C2 - With maxSize present (0 included) and file-too-large in the        *)
(* catalog, a file is rejected for file-too-large exactly when its size    *)
(* is greater than maxSize.                                                *)
(***************************************************************************)
C2_SizeUpperBound ==
    (Returned /\ maxSize # Undefined /\ CatalogHas(FileTooLarge))
        => \A f \in InBatch : RejectedFor(f, FileTooLarge) <=> f.size > maxSize[1]

(***************************************************************************)
(* C3 - Count limit applies uniformly: when the batch has more files than  *)
(* maxFiles and too-many-files is in the catalog, every file gets a record *)
(* whose first error is too-many-files; otherwise no record has that code. *)
(***************************************************************************)
C3_CountLimitUniform ==
    Returned =>
        IF maxFiles # Undefined /\ Len(files) > maxFiles[1]
        THEN CatalogHas(TooManyFiles) =>
                /\ Len(rejections) = Len(files)
                /\ \A i \in 1..Len(files) :
                      /\ rejections[i].file = files[i]
                      /\ rejections[i].error[1].code = TooManyFiles
        ELSE NoRecordHas(TooManyFiles)

C3_Witness ==
    /\ Returned
    /\ CatalogHas(TooManyFiles)
    /\ maxFiles = Some(1)
    /\ Len(files) = 2
    /\ Len(rejections) = 2

(***************************************************************************)
(* C4 - Multi-error aggregation: the error sequence reported for a file is *)
(* exactly the configured-and-violated rules, once each, in the order      *)
(* too-many-files, file-invalid-type, file-too-large, file-too-small.      *)
(***************************************************************************)
C4_AggregationInRuleOrder ==
    Returned => \A f \in InBatch : ReportedCodes(f) = ExpectedCodes(f)

(***************************************************************************)
(* C5 - Type rule: with acceptedFormats present and file-invalid-type in   *)
(* the catalog, a file is rejected for file-invalid-type exactly when no   *)
(* pattern matches it; a dotted pattern is a suffix of the name, any other *)
(* pattern a prefix of the type.                                           *)
(***************************************************************************)
C5_TypeRule ==
    (Returned /\ acceptedFormats # Undefined /\ CatalogHas(FileInvalidType))
        => \A f \in InBatch : RejectedFor(f, FileInvalidType) <=> ~SomePatternMatches(f)

C5_Witness ==
    /\ Returned
    /\ CatalogHas(FileInvalidType)
    /\ acceptedFormats = Some(<< <<".", "t">> >>)
    /\ \E f \in InBatch :
          /\ f.type = <<".", "t">>
          /\ f.name = <<"a", ".", "T">>
          /\ RejectedFor(f, FileInvalidType)

(***************************************************************************)
(* C6 - Absent versus empty acceptedFormats: absent never rejects for      *)
(* file-invalid-type; the empty list rejects every file for it when the    *)
(* catalog has the code.                                                   *)
(***************************************************************************)
C6_AbsentVersusEmptyFormats ==
    Returned =>
        /\ acceptedFormats = Undefined => NoRecordHas(FileInvalidType)
        /\ (acceptedFormats = Some(<<>>) /\ CatalogHas(FileInvalidType))
              => \A f \in InBatch : RejectedFor(f, FileInvalidType)

C6_Witness ==
    /\ Returned
    /\ acceptedFormats = Some(<<>>)
    /\ CatalogHas(FileInvalidType)
    /\ Len(files) >= 1
    /\ Len(rejections) = Len(files)

(***************************************************************************)
(* C7 - as stated: no two rejection records of one call refer to the same  *)
(* file, whatever the batch (a repeated file included).                    *)
(***************************************************************************)
C7_NoTwoRecordsSameFile ==
    Returned =>
        \A i, j \in 1..Len(rejections) : i # j => rejections[i].file # rejections[j].file

(***************************************************************************)
(* C7 - amended: a file has no more rejection records than occurrences in  *)
(* the batch (one at most when the batch does not repeat it), and each of  *)
(* its records holds every code the file is rejected for, once.            *)
(***************************************************************************)
C7_OneRecordPerOccurrence ==
    Returned =>
        /\ \A f \in InBatch : Cardinality(RecordsOf(f)) <= Cardinality(Occurrences(f))
        /\ \A i \in 1..Len(rejections) :
              /\ rejections[i].file \in InBatch
              /\ \A c \in IFileErrorTypes :
                    RejectedFor(rejections[i].file, c) =>
                        Cardinality({j \in 1..Len(rejections[i].error) :
                                        rejections[i].error[j].code = c}) = 1

C7_Witness ==
    /\ Returned
    /\ Len(rejections) = 2
    /\ rejections[1].file = rejections[2].file
    /\ Len(rejections[1].error) >= 2

(***************************************************************************)
(* C8 - A file has a rejection record if and only if it violates at least  *)
(* one configured rule, and no record has an empty error sequence.         *)
(***************************************************************************)
C8_RejectedIffViolates ==
    Returned =>
        /\ \A f \in InBatch :
              RecordsOf(f) # {} <=> \E c \in IFileErrorTypes : CatalogHas(c) /\ Violates(f, c)
        /\ \A i \in 1..Len(rejections) : Len(rejections[i].error) > 0

(***************************************************************************)
(* C9 - Output order is stable: the files of the returned records form a   *)
(* subsequence of the input file sequence.                                 *)
(***************************************************************************)
C9_OutputIsSubsequence == Returned => IsSubsequence(RejectedFiles, files)

C9_Witness ==
    /\ Returned
    /\ Len(files) = 2
    /\ files[1] # files[2]
    /\ Len(rejections) = 2

(***************************************************************************)
(* C10 - With maxFiles, maxSize, minSize and acceptedFormats all absent    *)
(* the result is the empty sequence, for every batch and every catalog.    *)
(***************************************************************************)
C10_NoConstraintsNoRejections ==
    (Returned /\ maxFiles = Undefined /\ maxSize = Undefined
              /\ minSize = Undefined /\ acceptedFormats = Undefined)
        => rejections = <<>>

C10_Witness ==
    /\ Returned
    /\ maxFiles = Undefined /\ maxSize = Undefined
    /\ minSize = Undefined /\ acceptedFormats = Undefined
    /\ messages = Some(BaseCatalog)
    /\ Len(files) >= 2

(***************************************************************************)
(* C11 - Lower size bound is inclusive: with minSize present and           *)
(* file-too-small in the catalog, a file is rejected for file-too-small    *)
(* exactly when its size is less than minSize; an absent minSize never     *)
(* rejects.                                                                *)
(***************************************************************************)
C11_SizeLowerBound ==
    Returned =>
        /\ minSize = Undefined => NoRecordHas(FileTooSmall)
        /\ (minSize # Undefined /\ CatalogHas(FileTooSmall))
              => \A f \in InBatch : RejectedFor(f, FileTooSmall) <=> f.size < minSize[1]

C11_Witness ==
    /\ Returned
    /\ CatalogHas(FileTooSmall)
    /\ minSize # Undefined
    /\ \E f \in InBatch : f.size = minSize[1] /\ f.size > 0 /\ RecordsOf(f) = {}
    /\ \E f \in InBatch : f.size < minSize[1] /\ RejectedFor(f, FileTooSmall)

(***************************************************************************)
(* C12 - Rule Evaluator truth table: validateFile returns no violation     *)
(* when the catalog has no entry for the code or when the condition is     *)
(* satisfied, and otherwise the first catalog entry of that code, with its *)
(* code and message unchanged.                                             *)
(***************************************************************************)
EntriesOf(c) ==
    IF messages = Undefined THEN {}
    ELSE {i \in 1..Len(messages[1]) : messages[1][i].code = c}

Pass == lastPass[1]

PassAccepted == Pass.onDrop[1]

PassRejections == Pass.onDrop[2]

TimesIn(list, x) == Cardinality({i \in 1..Len(list) : list[i] = x})

RecordsFor(f) == {j \in 1..Len(PassRejections) : PassRejections[j].file = f}

NamesIn(list) == {list[i].name : i \in 1..Len(list)}

DropOrChange == phase = "effects" /\ event.type \in {"drop", "change"}

(***************************************************************************)
(* C13 - Accepted/rejected partition: at every validation pass each held   *)
(* file is handed to onDrop exactly once, either in the accepted list or   *)
(* as the file of one rejection record, and the accepted list is the held  *)
(* files that appear in no rejection record.                               *)
(***************************************************************************)
C13_AcceptedRejectedPartition ==
    lastPass # Undefined =>
        /\ \A i \in 1..Len(Pass.files) :
              TimesIn(PassAccepted, Pass.files[i])
                + Cardinality(RecordsFor(Pass.files[i])) = 1
        /\ PassAccepted = SelectSeq(Pass.files, LAMBDA f : RecordsFor(f) = {})

C15_RedropIdempotent ==
    [][(DropOrChange /\ NamesIn(event.files) \subseteq NamesIn(event.held))
          => /\ files = event.held
             /\ lastPass'[1].onDrop[1] = lastPass[1].onDrop[1]]_vars

(***************************************************************************)
(* C16 - Single-file mode: with multiple false a drop or selection of two  *)
(* or more files hands onDrop an accepted list made of the first file      *)
(* only, and the held list never has more than one file.                   *)
(***************************************************************************)
C16_SingleFileMode ==
    [][multiple = FALSE =>
          /\ Len(files) <= 1
          /\ (DropOrChange /\ Len(event.files) >= 2)
                => lastPass'[1].onDrop[1] = <<event.files[1]>>]_vars

(***************************************************************************)
(* C17 - as stated: every catalog handed to validator once the merge       *)
(* effect has run has exactly one entry per code, the caller's entry when  *)
(* there is one and the built-in entry otherwise.                          *)
(***************************************************************************)
CallerEntries(c) ==
    IF validationMessages = Undefined THEN {}
    ELSE {i \in 1..Len(validationMessages[1]) : validationMessages[1][i].code = c}

BuiltInEntry(c) == BaseCatalog[CHOOSE i \in 1..Len(BaseCatalog) : BaseCatalog[i].code = c]

MergedEntry(c) ==
    IF CallerEntries(c) = {} THEN BuiltInEntry(c)
    ELSE validationMessages[1][CHOOSE i \in CallerEntries(c) : \A j \in CallerEntries(c) : i <= j]

IsMerged(catalog) ==
    /\ catalog # Undefined
    /\ \A c \in IFileErrorTypes :
          /\ Cardinality({i \in 1..Len(catalog[1]) : catalog[1][i].code = c}) = 1
          /\ \E i \in 1..Len(catalog[1]) : catalog[1][i] = MergedEntry(c)

C17_EveryCallAfterMerge ==
    (lastPass # Undefined /\ phase # "mount") => IsMerged(Pass.messages)

(***************************************************************************)
(* C17 - amended: once the merge effect has run the component's catalog    *)
(* has exactly one entry per code, the caller's when there is one and the  *)
(* built-in one otherwise, and that catalog is handed to validator in      *)
(* every validation pass but the one of the mount.                         *)
(***************************************************************************)
C17_MergedCatalog ==
    /\ phase # "mount" => IsMerged(internalValidationMessages)
    /\ (lastPass # Undefined /\ Pass.pass = "update")
          => (IsMerged(Pass.messages) /\ Pass.messages = internalValidationMessages)

C17_Witness ==
    /\ lastPass # Undefined
    /\ Pass.pass = "update"
    /\ Len(Pass.files) > 0
    /\ Cardinality(CallerEntries(TooManyFiles)) = 2
    /\ \E j \in 1..Len(PassRejections) :
          PassRejections[j].error[1] = [code |-> TooManyFiles, message |-> "custom"]

(***************************************************************************)
(* C18 - onDropAccepted is called only with a non-empty list: a validation *)
(* pass that accepts no held file does not call it.                        *)
(***************************************************************************)
C18_AcceptedOnlyWhenNonEmpty ==
    (lastPass # Undefined /\ Pass.onDropAccepted # Undefined)
        => Len(Pass.onDropAccepted[1]) > 0

(***************************************************************************)
(* C19 - File deletion: handleFileDelete(deletedFiles) removes from the    *)
(* held list exactly the files that have the name of a deleted file and    *)
(* keeps the others in their order; afterwards no held file and no file of *)
(* the input element has a deleted name.                                   *)
(***************************************************************************)
KeptAfterDelete ==
    SelectSeq(event.held, LAMBDA f : f.name \notin NamesIn(event.files))

C19_FileDeletion ==
    [][(phase = "effects" /\ event.type = "delete")
          => /\ files = KeptAfterDelete
             /\ NamesIn(inputFiles) \cap NamesIn(event.files) = {}
             /\ files' = KeptAfterDelete
             /\ NamesIn(inputFiles') \cap NamesIn(event.files) = {}]_vars

(***************************************************************************)
(* C20 - Idempotence of the engine: two validator calls with identical     *)
(* files, constraints and catalog return identical rejection sequences,    *)
(* whatever other calls were made before or between them.                  *)
(***************************************************************************)
C20_SameArgumentsSameResult ==
    \A i, j \in 1..Len(history) :
        history[i].args = history[j].args => history[i].result = history[j].result

C20_Witness ==
    /\ Len(history) = 3
    /\ history[1].args = history[3].args
    /\ history[2].args # history[1].args
    /\ history[1].result # <<>>
    /\ history[2].result # <<>>
    /\ history[2].result # history[1].result

(***************************************************************************)
(* C21 - The engine never mutates caller-owned data: no step of a          *)
(* validator call changes the file sequence, the accepted formats, the     *)
(* numeric constraints or the message catalog, so that after the call they *)
(* are exactly as before it.                                               *)
(***************************************************************************)
C21_CallerDataUntouched ==
    [][/\ files' = files
       /\ acceptedFormats' = acceptedFormats
       /\ <<maxFiles', maxSize', minSize'>> = <<maxFiles, maxSize, minSize>>
       /\ messages' = messages]_vars

C21_Witness ==
    /\ Returned
    /\ Len(files) = 2
    /\ Len(rejections) = 2
    /\ Len(rejections[1].error) >= 2
    /\ acceptedFormats # Undefined
    /\ messages # Undefined
    /\ history[1].args = params

(***************************************************************************)
(* C22 - validator is total on valid inputs: whatever the batch (empty,    *)
(* with a file of empty name or of empty type), the constraints and the    *)
(* catalog, absent or present, no step fails, a call that has not returned *)
(* is at a file of the batch or at its end, and the call returns its       *)
(* rejection sequence after having evaluated every file of the batch.      *)
(***************************************************************************)
C22_Total ==
    /\ pc # "thrown"
    /\ pc = "reduce" => cursor \in 1..(Len(files) + 1)
    /\ Returned =>
          /\ cursor = Len(files) + 1
          /\ history[Len(history)].result = rejections

C22_Witness ==
    /\ Returned
    /\ Len(files) = 2
    /\ files[1].name = <<>>
    /\ files[1].type = <<>>
    /\ acceptedFormats # Undefined
    /\ minSize = Undefined
    /\ \E r \in 1..Len(rejections) : rejections[r].file = files[2]

(***************************************************************************)
(* C23 - Concurrent invocation is safe: when two validator calls with      *)
(* different inputs are interleaved rule by rule and file by file, each    *)
(* returns exactly the result it returns when it runs alone.               *)
(***************************************************************************)
AloneResult(a) == validator(a[1], a[2], a[3], a[4], a[5], a[6])

C23_InterleavedAsAlone ==
    \A i \in 1..Len(calls) :
        calls[i].pc = "returned" => calls[i].rejections = AloneResult(calls[i].args)

C23_Witness ==
    /\ Len(calls) = 2
    /\ \A i \in 1..2 :
          /\ calls[i].pc = "returned"
          /\ calls[i].overlapped
          /\ Len(calls[i].rejections) = 2
    /\ calls[1].rejections # calls[2].rejections

(***************************************************************************)
(* C24 - Drag indicator: isDragActive is false initially and afterwards    *)
(* tells whether the most recent drag-enter or drag-leave event of the     *)
(* container was an enter; drag-over, drop and input-change events leave   *)
(* it as it is.                                                            *)
(***************************************************************************)
C24_DragIndicator == isDragActive = (lastDrag = "enter")

C24_Witness ==
    /\ lastDrag = "leave"
    /\ isDragActive = FALSE
    /\ phase = "effects"
    /\ event.type = "drop"
    /\ Len(event.held) > 0

(***************************************************************************)
(* C25 - Rejected files stay held: in multiple mode a drop or a selection  *)
(* keeps the held files, accepted or rejected, at the front of the held    *)
(* list and in their order; the list gets shorter only by handleFileDelete;*)
(* and a validation pass over more held files than maxFiles rejects every  *)
(* one of them with too-many-files.                                        *)
(***************************************************************************)
DeleteStep == phase = "idle" /\ event'.type = "delete"

ValidationStep == phase = "effects" /\ phase' = "idle"

OverTheLimit(list) == maxFiles # Undefined /\ Len(list) > maxFiles[1]

RejectedAsTooMany(f, rejs) ==
    \E j \in 1..Len(rejs) :
        /\ rejs[j].file = f
        /\ \E e \in 1..Len(rejs[j].error) : rejs[j].error[e].code = TooManyFiles

C25_RejectedFilesStayHeld ==
    [][multiple = TRUE =>
          /\ ~DeleteStep => IsPrefix(files, files')
          /\ Len(files') < Len(files) => DeleteStep
          /\ (ValidationStep /\ OverTheLimit(files))
                => \A i \in 1..Len(files) :
                      RejectedAsTooMany(files[i], lastPass'[1].onDrop[2])]_vars

C25_Witness ==
    /\ multiple = TRUE
    /\ phase = "idle"
    /\ lastPass # Undefined
    /\ OverTheLimit(files)
    /\ Len(files) = 3
    /\ Pass.files = files
    /\ PassAccepted = <<>>
    /\ \A i \in 1..Len(files) : RejectedAsTooMany(files[i], PassRejections)

(***************************************************************************)
(* C26 - Per-file independence and permutation equivariance: the errors of *)
(* a file depend only on the file, the number of files in the batch, the   *)
(* constraints and the catalog, so a file gets the same errors in any      *)
(* other batch of as many files, at any position; and the records of a     *)
(* permuted batch are the records of the batch, permuted the same way.     *)
(***************************************************************************)
BatchOf(h) == h.args[1]

ErrorsIn(h, f) ==
    LET recs == {r \in 1..Len(h.result) : h.result[r].file = f}
    IN IF recs = {} THEN <<>>
       ELSE h.result[CHOOSE r \in recs : \A q \in recs : r <= q].error

CountIn(list, f) == Cardinality({k \in 1..Len(list) : list[k] = f})

IsPermutation(a, b) == Len(a) = Len(b) /\ \A f \in Pool : CountIn(a, f) = CountIn(b, f)

Carried(h, batch) ==
    SelectSeq([k \in 1..Len(batch) |-> [file |-> batch[k], error |-> ErrorsIn(h, batch[k])]],
              LAMBDA r : r.error # <<>>)

C26_PerFileIndependence ==
    Len(history) = 2 =>
        /\ \A f \in Pool :
              (CountIn(BatchOf(history[1]), f) > 0 /\ CountIn(BatchOf(history[2]), f) > 0)
                  => ErrorsIn(history[1], f) = ErrorsIn(history[2], f)
        /\ IsPermutation(BatchOf(history[1]), BatchOf(history[2]))
              => history[2].result = Carried(history[1], BatchOf(history[2]))

C26_Witness ==
    /\ Len(history) = 2
    /\ Len(files) = 2
    /\ BatchOf(history[1]) # BatchOf(history[2])
    /\ IsPermutation(BatchOf(history[1]), BatchOf(history[2]))
    /\ Len(history[1].result) = 2
    /\ history[1].result[1].error # history[1].result[2].error
    /\ history[2].result = <<history[1].result[2], history[1].result[1]>>
====
